---- MODULE Spec2Model ----
(***************************************************************************)
(* riiload: sending an executable to a Wii over TCP, and the configuration *)
(* file holding the default address (src/src/main.rs).                     *)
(*                                                                         *)
(* One invocation of the program is a process that walks through the calls *)
(* of main: every call the source makes to the file system or the network  *)
(* is one atomic step.  The config file is shared by all invocations.      *)
(***************************************************************************)
EXTENDS Integers, Sequences, FiniteSets, TLC

VARIABLES
    file,   \* the config file at get_config_path(): [exists, data]
    procs,  \* the invocations of the program, one record per process
    prev    \* the invocation that completed last (what the shell saw)

vars == <<file, procs, prev>>

---------------------------------------------------------------------------
\* Bounds of the model.

\* Longest address string (and so longest config file content).
MaxLen == 2

\* Most candidates a name resolution returns.
MaxCandidates == 2

\* The two invocations that may race on the config file.
Procs == {1, 2}

\* The sequential specification runs one invocation at a time, in this slot.
SeqProcs == {1}

\* Bytes an address is made of: 'a' and ':'.
Alphabet == {97, 58}

Addresses == UNION {[1..n -> Alphabet] : n \in 0..MaxLen}

\* Contents of the executable file named on the command line.
ExeContents == {<<127>>, <<127, 69>>}

---------------------------------------------------------------------------
\* Program constants.

DEFAULT_COMPRESSION_LEVEL == 5

TCP_PORT == 4299

FILE_NAME == "riiload_config"

---------------------------------------------------------------------------
\* Option<T> is a sequence of length at most one.

None == <<>>

Some(v) == <<v>>

\* Result<_, E>: the Ok value, or the error variant with what it carries
\* (the wrapped config error of OtherConfigError, the kind of an io::Error).
Ok(v) == [ok |-> TRUE, tag |-> "Ok", inner |-> "", kind |-> "", val |-> v]

Err(tag, inner, kind) ==
    [ok |-> FALSE, tag |-> tag, inner |-> inner, kind |-> kind, val |-> <<>>]

\* The config file when it does not exist.
Absent == [exists |-> FALSE, data |-> <<>>]

---------------------------------------------------------------------------
\* What an invocation did to the outside world, in order: one event per call
\* of fsread, read_to_string, to_socket_addrs, TcpStream::connect, net_send.
Event(op, ret, bytes, cands, args, level) ==
    [op |-> op, ret |-> ret, bytes |-> bytes, cands |-> cands,
     args |-> args, level |-> level]

\* std::io::Result of a file call: the io::ErrorKind when it failed.
IoOk(v) == [ok |-> TRUE, kind |-> "", val |-> v]

IoErr(kind) == [ok |-> FALSE, kind |-> kind, val |-> <<>>]

---------------------------------------------------------------------------
\* File system primitives, on the one config file.  fault: the platform
\* reports an error other than NotFound (permission denied, I/O error).

read_to_string(f, fault) ==
    IF fault THEN IoErr("Other")
    ELSE IF ~f.exists THEN IoErr("NotFound")
    ELSE IoOk(f.data)

\* Mutant of FileCreate: the file is opened for writing without truncation.
FileCreate_keep(f) == [exists |-> TRUE, data |-> f.data]

\* File::create: the file is created if missing and truncated if present.
FileCreate(f) == [exists |-> TRUE, data |-> <<>>]

\* Mutant of WriteAt0: the writer is opened in append mode.
WriteAt0_append(f, bytes) == [exists |-> TRUE, data |-> f.data \o bytes]

\* write_all through a writer opened by File::create (offset 0, no append):
\* the bytes replace what the file holds at the same offsets.
WriteAt0(f, bytes) ==
    [exists |-> TRUE,
     data |-> bytes \o SubSeq(f.data, Len(bytes) + 1, Len(f.data))]

remove_file(f, fault) ==
    IF fault THEN IoErr("Other")
    ELSE IF ~f.exists THEN IoErr("NotFound")
    ELSE IoOk(<<>>)

---------------------------------------------------------------------------
\* Config file handling.

get_config_path(config_dir) ==
    IF config_dir = None THEN Err("NoSuitableFolder", "", "")
    ELSE Ok(config_dir \o <<FILE_NAME>>)

\* The result, and the events of the calls made (io).
get_default_address(config_dir, f, fault) ==
    LET path == get_config_path(config_dir)
        r == read_to_string(f, fault)
    IN  IF ~path.ok THEN [res |-> path, io |-> <<>>]
        ELSE [res |-> IF r.ok THEN Ok(r.val)
                      ELSE IF r.kind = "NotFound"
                           THEN Err("NoConfiguredDefault", "", "")
                           ELSE Err("FileAccess", "", r.kind),
              io |-> <<Event("read_config", IF r.ok THEN "Ok" ELSE "Err",
                             r.val, <<>>, <<>>, None)>>]

\* Mutant of maybe_get_address: the default is read before the match.
maybe_get_address_eager(address, config_dir, f, fault) ==
    LET d == get_default_address(config_dir, f, fault)
    IN  IF address # None THEN [res |-> Ok(address[1]), io |-> d.io] ELSE d

maybe_get_address(address, config_dir, f, fault) ==
    IF address # None THEN [res |-> Ok(address[1]), io |-> <<>>]
    ELSE get_default_address(config_dir, f, fault)

\* Mutant of remove_config_files: a missing file is not an error.
remove_config_files_ignore(config_dir, f, fault) ==
    LET path == get_config_path(config_dir)
        r == remove_file(f, fault)
    IN  IF ~path.ok THEN path
        ELSE IF ~r.ok /\ r.kind # "NotFound"
             THEN Err("FileAccess", "", r.kind)
             ELSE Ok(<<>>)

\* remove_config_files: the mapping of remove_file's outcome.
remove_config_files(config_dir, f, fault) ==
    LET path == get_config_path(config_dir)
        r == remove_file(f, fault)
    IN  IF ~path.ok THEN path
        ELSE IF ~r.ok
             THEN IF r.kind = "NotFound"
                  THEN Err("NoConfiguredDefault", "", "")
                  ELSE Err("FileAccess", "", r.kind)
             ELSE Ok(<<>>)

---------------------------------------------------------------------------
\* Conversions into NetLoadError.

FromWiiLoadFail(r) ==
    CASE r = "ArgsTooLong" -> Err("ArgsTooLong", "", "")
      [] r = "BinaryTooLong" -> Err("BinaryTooLong", "", "")
      [] OTHER -> Err("IOError", "", "Other")

\* Mutant of FromConfigError: every config error is wrapped, none remapped.
FromConfigError_wrap(r) == Err("OtherConfigError", r.tag, r.kind)

FromConfigError(r) ==
    IF r.tag = "NoConfiguredDefault" THEN Err("NoAddressPassed", "", "")
    ELSE Err("OtherConfigError", r.tag, r.kind)

FromIOError(kind) == Err("IOError", "", kind)

---------------------------------------------------------------------------
\* print_problem_and_exit: the line written to stderr, as its fragments.

ConfigProblem(e) ==
    CASE e.tag = "NoSuitableFolder" ->
            <<"error: ",
              "Could not find a folder for storing configuration, aborting.">>
      [] e.tag = "NoConfiguredDefault" ->
            <<"error: ", "No configuration file found, aborting.">>
      [] OTHER -> <<"error: ", "Problem while accessing file", e.kind>>

NetLoadProblem(e) ==
    CASE e.tag = "NoAddressPassed" ->
            <<"error: ",
              "No address argument, but not default address configured, aborting.">>
      [] e.tag = "CantResolveAddress" ->
            <<"error: ", "Cannot resolve passed address, aborting.">>
      [] e.tag = "ArgsTooLong" -> <<"error: ", "Arguments too long, aborting.">>
      [] e.tag = "BinaryTooLong" ->
            <<"error: ", "Binary file too long, aborting.">>
      [] e.tag = "IOError" -> <<"error: ", "IO error, aborting.", e.kind>>
      [] OTHER -> <<"error: ", "Configuration-related error, aborting.">>

---------------------------------------------------------------------------
\* Name resolution of format!("{}:{}", to_connect_address, TCP_PORT).

RECURSIVE Decimal(_)
\* Display of an unsigned integer: its decimal digits, as ASCII bytes.
Decimal(n) ==
    IF n < 10 THEN <<48 + n>> ELSE Decimal(n \div 10) \o <<48 + (n % 10)>>

\* format!("{}:{}", host, port)
Format(host, port) == host \o <<58>> \o Decimal(port)

\* Position of the last ':' of s, 0 when there is none (rsplit_once).
LastColon(s) ==
    LET at == {i \in 1..Len(s) : s[i] = 58}
    IN  IF at = {} THEN 0 ELSE CHOOSE i \in at : \A j \in at : j <= i

RECURSIVE DecimalValue(_)
DecimalValue(t) ==
    IF t = <<>> THEN 0
    ELSE 10 * DecimalValue(SubSeq(t, 1, Len(t) - 1)) + (t[Len(t)] - 48)

\* str::parse::<u16>() of the text after the last ':'.
ParsePort(t) ==
    IF t = <<>> \/ \E i \in 1..Len(t) : t[i] < 48 \/ t[i] > 57 THEN None
    ELSE IF DecimalValue(t) > 65535 THEN None
    ELSE Some(DecimalValue(t))

\* to_socket_addrs: lookup is what the resolver finds for the host part,
\* None when the lookup fails, Some(n) when it yields n hosts; every
\* candidate carries the port that was parsed from the string.
to_socket_addrs(s, lookup) ==
    LET i == LastColon(s)
        port == IF i = 0 THEN None ELSE ParsePort(SubSeq(s, i + 1, Len(s)))
    IN  IF port = None \/ lookup = None THEN [ok |-> FALSE, cands |-> <<>>]
        ELSE [ok |-> TRUE,
              cands |-> [k \in 1..lookup[1] |-> [ip |-> k, port |-> port[1]]]]

\* Mutant of FirstCandidate: the last candidate is taken (i.last()).
FirstCandidate_last(cands) ==
    IF cands = <<>> THEN None ELSE Some(cands[Len(cands)])

\* i.next() on the iterator of candidates.
FirstCandidate(cands) == IF cands = <<>> THEN None ELSE Some(cands[1])

\* Mutant of CompressionLevel: the flag is ignored.
CompressionLevel_always(compression) == Some(DEFAULT_COMPRESSION_LEVEL)

\* The compression argument of net_send.
CompressionLevel(compression) ==
    IF compression THEN Some(DEFAULT_COMPRESSION_LEVEL) ELSE None

\* What the resolver may find.
Lookups == {None} \cup {Some(n) : n \in 0..MaxCandidates}

\* What net_send (wiiload_proto) may return.
SendOutcomes == {"Ok", "ArgsTooLong", "BinaryTooLong", "NetError"}

---------------------------------------------------------------------------
\* Invocations.

\* An invocation not started: the slot is free.
Idle ==
    [pc |-> "idle", cmd |-> "", executable |-> None, address |-> None,
     no_compression |-> FALSE, config_dir |-> None,
     executable_data |-> <<>>, to_connect_address |-> <<>>, sock_addr |-> None,
     writer |-> "none", truncated |-> None, result |-> Ok(<<>>),
     trace |-> <<>>, stderr |-> <<>>, stdout |-> <<>>, code |-> None]

\* What dirs::config_dir() returns to an invocation.
ConfigDirs == {None, Some("~/.config")}

\* The executable path of a load names a file with some content, or one
\* that cannot be read.
Executables == {None} \cup {Some(b) : b \in ExeContents}

\* The parsed command lines (Commands::from_args).
LoadInvocations ==
    {[Idle EXCEPT !.cmd = "load", !.executable = e, !.address = a,
                  !.no_compression = n, !.config_dir = d] :
        e \in Executables,
        a \in {None} \cup {Some(x) : x \in Addresses},
        n \in BOOLEAN, d \in ConfigDirs}

ConfigInvocations ==
    {[Idle EXCEPT !.cmd = "set", !.address = Some(x), !.config_dir = d] :
        x \in Addresses, d \in ConfigDirs}
    \cup {[Idle EXCEPT !.cmd = c, !.config_dir = d] :
        c \in {"get", "delete", "print-path"}, d \in ConfigDirs}

\* main's match on the command: the first call of each arm.
FirstStep(cmd) ==
    CASE cmd = "load" -> "fsread"
      [] cmd = "set" -> "create"
      [] cmd = "get" -> "get"
      [] cmd = "delete" -> "remove"
      [] OTHER -> "path"

Set(p, rec) == procs' = [procs EXCEPT ![p] = rec]

\* The operation returned r into main.
Returned(rec, r) == [rec EXCEPT !.pc = "main", !.result = r]

Init ==
    /\ file = Absent
    /\ procs = [p \in Procs |-> Idle]
    /\ prev = [cmd |-> "", ok |-> FALSE, address |-> None, truncated |-> None]

StartWith(p, invocations) ==
    /\ procs[p].pc = "idle"
    /\ \E inv \in invocations : Set(p, [inv EXCEPT !.pc = FirstStep(inv.cmd)])
    /\ UNCHANGED <<file, prev>>

\* The shell runs any command.
Start(p) == StartWith(p, LoadInvocations \cup ConfigInvocations)

\* The shell runs a config command.
StartConfig(p) == StartWith(p, ConfigInvocations)

---------------------------------------------------------------------------
\* do_net_load, one step per call.

Logged(rec, events) == [rec EXCEPT !.trace = @ \o events]

\* Mutant of FsRead: a failed read is not propagated, the load goes on with
\* no data (unwrap_or_default in place of ?).
FsRead_lenient(p) ==
    LET rec == procs[p]
        read == rec.executable # None
        data == IF read THEN rec.executable[1] ELSE <<>>
    IN
    /\ rec.pc = "fsread"
    /\ Set(p, [Logged(rec, <<Event("fsread", IF read THEN "Ok" ELSE "Err",
                                   data, <<>>, <<>>, None)>>)
               EXCEPT !.pc = "address", !.executable_data = data])
    /\ UNCHANGED <<file, prev>>

\* let executable_data = fsread(executable_path)?;
FsRead(p) ==
    LET rec == procs[p] IN
    /\ rec.pc = "fsread"
    /\ IF rec.executable # None
       THEN Set(p, [Logged(rec, <<Event("fsread", "Ok", rec.executable[1],
                                        <<>>, <<>>, None)>>)
                    EXCEPT !.pc = "address",
                           !.executable_data = rec.executable[1]])
       ELSE Set(p, Returned(Logged(rec, <<Event("fsread", "Err", <<>>,
                                                <<>>, <<>>, None)>>),
                            FromIOError("NotFound")))
    /\ UNCHANGED <<file, prev>>

\* let to_connect_address = maybe_get_address(address)?;
GetAddress(p) ==
    LET rec == procs[p] IN
    /\ rec.pc = "address"
    /\ \E fault \in BOOLEAN :
          LET r == maybe_get_address(rec.address, rec.config_dir, file, fault)
              now == Logged(rec, r.io)
          IN  IF r.res.ok
              THEN Set(p, [now EXCEPT !.pc = "resolve",
                                      !.to_connect_address = r.res.val])
              ELSE Set(p, Returned(now, FromConfigError(r.res)))
    /\ UNCHANGED <<file, prev>>

\* Mutant of resolve_match: the error of to_socket_addrs() is propagated
\* with ? and becomes the generic IOError.
resolve_match_io(r) ==
    IF r.ok
    THEN IF FirstCandidate(r.cands) # None
         THEN Ok(FirstCandidate(r.cands))
         ELSE Err("CantResolveAddress", "", "")
    ELSE FromIOError("Other")

\* The match on the result of to_socket_addrs() and on i.next(): the first
\* candidate, or CantResolveAddress.
resolve_match(r) ==
    IF r.ok
    THEN IF FirstCandidate(r.cands) # None
         THEN Ok(FirstCandidate(r.cands))
         ELSE Err("CantResolveAddress", "", "")
    ELSE Err("CantResolveAddress", "", "")

\* let sock_addr = match format!(..).to_socket_addrs() { .. };
Resolve(p) ==
    LET rec == procs[p] IN
    /\ rec.pc = "resolve"
    /\ \E lookup \in Lookups :
          LET target == Format(rec.to_connect_address, TCP_PORT)
              r == to_socket_addrs(target, lookup)
              m == resolve_match(r)
              now == Logged(rec, <<Event("resolve",
                                         IF r.ok THEN "Ok" ELSE "Err",
                                         target, r.cands, <<>>, None)>>)
          IN  IF m.ok
              THEN Set(p, [now EXCEPT !.pc = "connect", !.sock_addr = m.val])
              ELSE Set(p, Returned(now, m))
    /\ UNCHANGED <<file, prev>>

\* let mut stream = TcpStream::connect(sock_addr)?;
Connect(p) ==
    LET rec == procs[p] IN
    /\ rec.pc = "connect"
    /\ \E connected \in BOOLEAN :
          LET now == Logged(rec, <<Event("connect",
                                         IF connected THEN "Ok" ELSE "Err",
                                         <<>>, rec.sock_addr, <<>>, None)>>)
          IN  IF connected
              THEN Set(p, [now EXCEPT !.pc = "send"])
              ELSE Set(p, Returned(now, FromIOError("Other")))
    /\ UNCHANGED <<file, prev>>

\* net_send(&mut stream, &executable_data, "".to_string(), ..)?; Ok(())
NetSend(p) ==
    LET rec == procs[p] IN
    /\ rec.pc = "send"
    /\ \E out \in SendOutcomes :
          LET now == Logged(rec, <<Event("net_send", out, rec.executable_data,
                                         <<>>, <<>>,
                                         CompressionLevel(~rec.no_compression))>>)
          IN  Set(p, Returned(now, IF out = "Ok" THEN Ok(<<>>)
                                   ELSE FromWiiLoadFail(out)))
    /\ UNCHANGED <<file, prev>>

---------------------------------------------------------------------------
\* The config commands, one step per call.

\* let mut writer = File::create(get_config_path()?)?;
SetCreate(p) ==
    LET rec == procs[p]
        path == get_config_path(rec.config_dir)
    IN
    /\ rec.pc = "create"
    /\ \E fault \in BOOLEAN :
          IF ~path.ok
          THEN Set(p, Returned(rec, path)) /\ UNCHANGED file
          ELSE IF fault
          THEN Set(p, Returned(rec, Err("FileAccess", "", "Other")))
               /\ UNCHANGED file
          ELSE /\ file' = FileCreate(file)
               /\ Set(p, [rec EXCEPT !.pc = "write", !.writer = "live",
                                      !.truncated =
                                          IF file.exists
                                          THEN Some(Len(file.data)) ELSE None])
    /\ UNCHANGED prev

\* The file after the writer wrote bytes: a writer whose file was removed
\* meanwhile writes to a file no path names any more.
Written(f, writer, bytes) == IF writer = "live" THEN WriteAt0(f, bytes) ELSE f

\* writer.write_all(&new.as_bytes())?; Ok(())  (the writer is then dropped)
SetWrite(p) ==
    LET rec == procs[p]
        new == rec.address[1]
    IN
    /\ rec.pc = "write"
    /\ \/ /\ file' = Written(file, rec.writer, new)
          /\ Set(p, Returned([rec EXCEPT !.writer = "none"], Ok(<<>>)))
       \/ \E k \in 0..(Len(new) - 1) :
             \* a write fails after k bytes went out
             /\ file' = Written(file, rec.writer, SubSeq(new, 1, k))
             /\ Set(p, Returned([rec EXCEPT !.writer = "none"],
                                Err("FileAccess", "", "Other")))
    /\ UNCHANGED prev

\* ConfigDefaultAddressCommand::Get => match get_default_address()
GetRead(p) ==
    LET rec == procs[p] IN
    /\ rec.pc = "get"
    /\ \E fault \in BOOLEAN :
          LET r == get_default_address(rec.config_dir, file, fault)
          IN  Set(p, Returned(Logged(rec, r.io), r.res))
    /\ UNCHANGED <<file, prev>>

\* remove_config_files()
Remove(p) ==
    LET rec == procs[p] IN
    /\ rec.pc = "remove"
    /\ \E fault \in BOOLEAN :
          LET r == remove_config_files(rec.config_dir, file, fault)
          IN  IF r.ok
              THEN /\ file' = Absent
                   /\ procs' = [q \in Procs |->
                         IF q = p THEN Returned(rec, r)
                         ELSE IF procs[q].writer = "live"
                              THEN [procs[q] EXCEPT !.writer = "orphan"]
                              ELSE procs[q]]
              ELSE Set(p, Returned(rec, r)) /\ UNCHANGED file
    /\ UNCHANGED prev

\* ConfigFileCommand::PrintPath => match get_config_path()
PrintPath(p) ==
    LET rec == procs[p] IN
    /\ rec.pc = "path"
    /\ Set(p, Returned(rec, get_config_path(rec.config_dir)))
    /\ UNCHANGED <<file, prev>>

---------------------------------------------------------------------------
\* main, after the operation returned.

\* Mutant of print_problem_and_exit: the line is printed, the exit is lost
\* and main returns.
print_problem_and_exit_zero(rec) ==
    [rec EXCEPT !.pc = "exited",
                !.stderr = @ \o <<IF rec.cmd = "load"
                                  THEN NetLoadProblem(rec.result)
                                  ELSE ConfigProblem(rec.result)>>,
                !.code = Some(0)]

\* print_problem_and_exit of both error types: the line, then exit(1).
print_problem_and_exit(rec) ==
    [rec EXCEPT !.pc = "exited",
                !.stderr = @ \o <<IF rec.cmd = "load"
                                  THEN NetLoadProblem(rec.result)
                                  ELSE ConfigProblem(rec.result)>>,
                !.code = Some(1)]

\* The Ok arms: get and print-path print the value; main returns.
main_returns(rec) ==
    [rec EXCEPT !.pc = "exited",
                !.stdout = IF rec.cmd \in {"get", "print-path"}
                           THEN @ \o <<rec.result.val>> ELSE @,
                !.code = Some(0)]

MainExit(p) ==
    LET rec == procs[p] IN
    /\ rec.pc = "main"
    /\ Set(p, IF rec.result.ok THEN main_returns(rec)
                               ELSE print_problem_and_exit(rec))
    /\ UNCHANGED <<file, prev>>

\* The process is gone; the next command line can be run in its place.
Reap(p) ==
    LET rec == procs[p] IN
    /\ rec.pc = "exited"
    /\ Set(p, Idle)
    /\ prev' = [cmd |-> rec.cmd, ok |-> rec.result.ok,
                address |-> IF rec.cmd = "set" /\ rec.result.ok
                            THEN rec.address ELSE None,
                truncated |-> IF rec.cmd = "set" /\ rec.result.ok
                              THEN rec.truncated ELSE None]
    /\ UNCHANGED file

---------------------------------------------------------------------------
\* Invocations one after another (the program itself is single-threaded).
Next ==
    \E p \in SeqProcs :
        \/ Start(p)
        \/ FsRead(p)
        \/ GetAddress(p)
        \/ Resolve(p)
        \/ Connect(p)
        \/ NetSend(p)
        \/ SetCreate(p)
        \/ SetWrite(p)
        \/ GetRead(p)
        \/ Remove(p)
        \/ PrintPath(p)
        \/ MainExit(p)
        \/ Reap(p)

Spec == Init /\ [][Next]_vars

\* Two config invocations started at any time, their calls interleaved: the
\* config file is accessed without locking.
RaceNext ==
    \E p \in Procs :
        \/ StartConfig(p)
        \/ SetCreate(p)
        \/ SetWrite(p)
        \/ GetRead(p)
        \/ Remove(p)
        \/ PrintPath(p)
        \/ MainExit(p)

RaceSpec == Init /\ [][RaceNext]_vars

---------------------------------------------------------------------------
\* Properties.

\* The operation of the invocation has returned into main.
Finished(rec) == rec.pc \in {"main", "exited"}

\* The positions of the events of one call in a trace.
At(trace, op) == {i \in 1..Len(trace) : trace[i].op = op}

\* C1: a successful set_default_address(A) directly followed by
\* get_default_address() gives back exactly A, whatever the file held
\* before (nothing, or an address longer than A): when the get returns a
\* value it is A, and it returns one unless the platform itself fails the
\* read (no config folder, or an I/O error other than NotFound).
C1_RoundTrip ==
    \A p \in Procs :
        LET rec == procs[p] IN
        (rec.cmd = "get" /\ Finished(rec) /\ prev.cmd = "set" /\ prev.ok) =>
            /\ rec.result.ok => rec.result.val = prev.address[1]
            /\ ~rec.result.ok =>
                  rec.result.tag \in {"NoSuitableFolder", "FileAccess"}
            /\ (rec.config_dir # None /\ rec.result.tag # "FileAccess") =>
                  rec.result.ok
            /\ (rec.pc = "exited" /\ rec.result.ok) =>
                  rec.stdout = <<prev.address[1]>>

\* C1 witness: set(A) replaced a longer content and the get printed A.
C1_Witness ==
    \E p \in Procs :
        /\ procs[p].cmd = "get" /\ procs[p].pc = "exited"
        /\ procs[p].result.ok
        /\ prev.cmd = "set" /\ prev.ok
        /\ prev.truncated # None
        /\ prev.truncated[1] > Len(prev.address[1])
        /\ Len(prev.address[1]) > 0
        /\ procs[p].stdout = <<prev.address[1]>>

\* C2: a load given an address uses it unchanged and never reads the config
\* file, whatever the file holds; only a load without the argument reads
\* the file, and then uses what it read.
C2_ExplicitAddressWins ==
    \A p \in Procs :
        LET rec == procs[p]
            used == At(rec.trace, "resolve") # {} \/ rec.pc = "resolve"
        IN  rec.cmd = "load" =>
            /\ rec.address # None =>
                  /\ At(rec.trace, "read_config") = {}
                  /\ used => rec.to_connect_address = rec.address[1]
                  /\ \A i \in At(rec.trace, "resolve") :
                        rec.trace[i].bytes = rec.address[1] \o <<58, 52, 50, 57, 57>>
            /\ (rec.address = None /\ used) =>
                  /\ file.exists
                  /\ rec.to_connect_address = file.data
                  /\ \E i \in At(rec.trace, "read_config") :
                        /\ rec.trace[i].ret = "Ok"
                        /\ rec.trace[i].bytes = rec.to_connect_address

\* C2 witness: a load with an address went through to the send while the
\* file held another, non-empty default.
C2_Witness ==
    \E p \in Procs :
        /\ procs[p].cmd = "load" /\ procs[p].pc = "exited"
        /\ procs[p].result.ok
        /\ procs[p].address # None
        /\ file.exists /\ file.data # <<>>
        /\ file.data # procs[p].address[1]
        /\ procs[p].to_connect_address = procs[p].address[1]

\* C3: with no config file, a load without address that read its
\* executable fails with NoAddressPassed, and 'config default-address get'
\* fails with NoConfiguredDefault (each unless the platform fails the call:
\* no config folder, I/O error); a load never reports NoConfiguredDefault,
\* not even wrapped, and a config command never reports NoAddressPassed;
\* the two diagnostics differ.
C3_ContextRemap ==
    \A p \in Procs :
        LET rec == procs[p] IN
        /\ (Finished(rec) /\ ~file.exists /\ rec.config_dir # None) =>
              /\ (rec.cmd = "load" /\ rec.address = None
                      /\ rec.executable # None) =>
                    /\ ~rec.result.ok
                    /\ \/ rec.result.tag = "NoAddressPassed"
                       \/ /\ rec.result.tag = "OtherConfigError"
                          /\ rec.result.inner = "FileAccess"
              /\ rec.cmd = "get" =>
                    /\ ~rec.result.ok
                    /\ rec.result.tag \in {"NoConfiguredDefault", "FileAccess"}
        /\ rec.cmd = "load" =>
              /\ rec.result.tag # "NoConfiguredDefault"
              /\ rec.result.inner # "NoConfiguredDefault"
        /\ rec.cmd # "load" => rec.result.tag # "NoAddressPassed"
        /\ (rec.pc = "exited" /\ rec.result.tag = "NoAddressPassed") =>
              rec.stderr = <<<<"error: ",
                  "No address argument, but not default address configured, aborting.">>>>
        /\ (rec.pc = "exited" /\ rec.result.tag = "NoConfiguredDefault") =>
              rec.stderr = <<<<"error: ",
                               "No configuration file found, aborting.">>>>

\* C3 witness: with no file, a get failed and the load run right after it
\* failed with NoAddressPassed.
C3_Witness ==
    \E p \in Procs :
        /\ procs[p].cmd = "load" /\ procs[p].pc = "exited"
        /\ procs[p].address = None
        /\ procs[p].result.tag = "NoAddressPassed"
        /\ ~file.exists
        /\ prev.cmd = "get" /\ ~prev.ok

\* The step an event records went well, so that the next step may start.
Succeeded(e) ==
    CASE e.op = "resolve" -> e.ret = "Ok" /\ e.cands # <<>>
      [] OTHER -> e.ret = "Ok"

\* The call that comes right before a call in do_net_load.
Before(op) ==
    CASE op = "read_config" -> {"fsread"}
      [] op = "resolve" -> {"fsread", "read_config"}
      [] op = "connect" -> {"resolve"}
      [] op = "net_send" -> {"connect"}
      [] OTHER -> {}

\* C4: the calls of a load happen in the order read executable, obtain
\* address, resolve, connect, send, each one only after the one before it
\* succeeded; resolution, connect and send find the executable completely
\* read; a load that ends with NoAddressPassed made no resolution.
C4_StepOrder ==
    \A p \in Procs :
        LET rec == procs[p]
            t == rec.trace
        IN  rec.cmd = "load" =>
            /\ \A i \in 1..Len(t) :
                  /\ i = 1 => t[i].op = "fsread"
                  /\ i > 1 => /\ t[i - 1].op \in Before(t[i].op)
                              /\ Succeeded(t[i - 1])
                  /\ t[i].op \in {"resolve", "connect", "net_send"} =>
                        /\ rec.executable # None
                        /\ t[1].bytes = rec.executable[1]
                        /\ rec.executable_data = rec.executable[1]
            /\ (Finished(rec) /\ rec.result.tag = "NoAddressPassed") =>
                  /\ At(t, "resolve") = {} /\ At(t, "connect") = {}
                  /\ At(t, "net_send") = {}
                  /\ At(t, "fsread") # {}
            /\ rec.pc = "address" => Len(t) = 1
            /\ rec.pc = "resolve" => t[Len(t)].op \in {"fsread", "read_config"}
            /\ rec.pc = "connect" => t[Len(t)].op = "resolve"
            /\ rec.pc = "send" => t[Len(t)].op = "connect"

\* C4 witness: a load without address argument made all five calls.
C4_Witness ==
    \E p \in Procs :
        /\ procs[p].cmd = "load" /\ procs[p].pc = "exited"
        /\ procs[p].result.ok
        /\ Len(procs[p].trace) = 5
        /\ procs[p].trace[2].op = "read_config"
        /\ procs[p].trace[5].op = "net_send"

\* C5: remove_config_files() called when the config file does not exist
\* never succeeds and leaves the file absent; it fails with
\* NoConfiguredDefault unless the platform fails the call itself (no config
\* folder: NoSuitableFolder, another I/O error: FileAccess).
C5_RemoveMissing ==
    [][\A p \in Procs :
          (procs[p].pc = "remove" /\ ~file.exists /\ procs'[p].pc = "main") =>
              /\ ~procs'[p].result.ok
              /\ ~file'.exists
              /\ procs'[p].result.tag \in
                    {"NoConfiguredDefault", "NoSuitableFolder", "FileAccess"}
              /\ procs'[p].result.tag = "NoSuitableFolder" =>
                    procs[p].config_dir = None
              /\ (procs[p].config_dir # None
                     /\ procs'[p].result.tag # "FileAccess") =>
                    procs'[p].result.tag = "NoConfiguredDefault"]_vars

\* C5 witness: a delete right after a successful delete failed with
\* NoConfiguredDefault.
C5_Witness ==
    \E p \in Procs :
        /\ procs[p].cmd = "delete" /\ procs[p].pc = "exited"
        /\ procs[p].result.tag = "NoConfiguredDefault"
        /\ procs[p].code = Some(1)
        /\ ~file.exists
        /\ prev.cmd = "delete" /\ prev.ok

\* C6: when the resolution of host:4299 fails or yields no candidate, the
\* load ends there with CantResolveAddress (never IOError): no connect and
\* no send follow.
C6_CantResolve ==
    \A p \in Procs :
        LET rec == procs[p]
            t == rec.trace
        IN  rec.cmd = "load" =>
            \A i \in At(t, "resolve") :
                (t[i].ret = "Err" \/ t[i].cands = <<>>) =>
                    /\ i = Len(t)
                    /\ Finished(rec)
                    /\ ~rec.result.ok
                    /\ rec.result.tag = "CantResolveAddress"
                    /\ rec.pc = "exited" =>
                          rec.stderr = <<<<"error: ",
                              "Cannot resolve passed address, aborting.">>>>

\* C6 witness: the resolution went well and returned no candidate.
C6_Witness ==
    \E p \in Procs :
        /\ procs[p].cmd = "load" /\ procs[p].pc = "exited"
        /\ \E i \in At(procs[p].trace, "resolve") :
              /\ procs[p].trace[i].ret = "Ok"
              /\ procs[p].trace[i].cands = <<>>
        /\ procs[p].result.tag = "CantResolveAddress"

\* C6 second witness: the resolution itself failed.
C6_WitnessFailed ==
    \E p \in Procs :
        /\ procs[p].cmd = "load" /\ procs[p].pc = "exited"
        /\ \E i \in At(procs[p].trace, "resolve") :
              procs[p].trace[i].ret = "Err"
        /\ procs[p].result.tag = "CantResolveAddress"

\* C7: an invocation that ended either returned success, exit code 0 and
\* nothing on stderr, or returned an error, one line on stderr that starts
\* with "error: " and exit code 1; before it ends nothing is written.
C7_ExitOutcome ==
    \A p \in Procs :
        LET rec == procs[p] IN
        /\ rec.pc = "exited" =>
              \/ /\ rec.result.ok
                 /\ rec.code = Some(0)
                 /\ rec.stderr = <<>>
              \/ /\ ~rec.result.ok
                 /\ rec.code = Some(1)
                 /\ Len(rec.stderr) = 1
                 /\ rec.stderr[1][1] = "error: "
                 /\ rec.stdout = <<>>
        /\ rec.pc # "exited" =>
              rec.code = None /\ rec.stderr = <<>> /\ rec.stdout = <<>>

\* C7 witness: a load ended with a wrapped config error, one line, code 1.
C7_Witness ==
    \E p \in Procs :
        /\ procs[p].pc = "exited"
        /\ procs[p].result.tag = "OtherConfigError"
        /\ procs[p].code = Some(1)
        /\ procs[p].stderr =
              <<<<"error: ", "Configuration-related error, aborting.">>>>

\* C8: a load that connected calls the encoder exactly once, with all the
\* bytes of the executable, no arguments, and level 5 exactly when
\* --no-compression is absent (no level otherwise).
C8_EncoderCall ==
    \A p \in Procs :
        LET rec == procs[p]
            t == rec.trace
        IN  rec.cmd = "load" =>
            /\ Cardinality(At(t, "net_send")) <= 1
            /\ \A i \in At(t, "net_send") :
                  /\ rec.executable # None
                  /\ t[i].bytes = rec.executable[1]
                  /\ t[i].args = <<>>
                  /\ t[i].level = IF rec.no_compression THEN <<>> ELSE <<5>>
            /\ (Finished(rec) /\ \E i \in At(t, "connect") : t[i].ret = "Ok")
                  => Cardinality(At(t, "net_send")) = 1

\* C8 witness: a load with compression sent the two bytes at level 5.
C8_Witness ==
    \E p \in Procs :
        /\ procs[p].cmd = "load" /\ procs[p].pc = "exited"
        /\ ~procs[p].no_compression
        /\ \E i \in At(procs[p].trace, "net_send") :
              /\ procs[p].trace[i].level = <<5>>
              /\ procs[p].trace[i].bytes = <<127, 69>>

\* C9: a load makes at most one connection attempt, to the first candidate
\* of the resolution, on port 4299; when it fails the load ends with
\* IOError and nothing else is tried.
C9_OneConnect ==
    \A p \in Procs :
        LET rec == procs[p]
            t == rec.trace
        IN  rec.cmd = "load" =>
            /\ Cardinality(At(t, "connect")) <= 1
            /\ \A i \in At(t, "connect") :
                  /\ i > 1 /\ t[i - 1].op = "resolve"
                  /\ t[i - 1].cands # <<>>
                  /\ t[i].cands = <<t[i - 1].cands[1]>>
                  /\ t[i].cands[1].port = 4299
                  /\ t[i].ret = "Err" =>
                        /\ i = Len(t)
                        /\ Finished(rec)
                        /\ rec.result.tag = "IOError"

\* C9 witness: two candidates, the connection to the first one failed.
C9_Witness ==
    \E p \in Procs :
        /\ procs[p].cmd = "load" /\ procs[p].pc = "exited"
        /\ procs[p].result.tag = "IOError"
        /\ \E i \in At(procs[p].trace, "connect") :
              /\ procs[p].trace[i].ret = "Err"
              /\ Len(procs[p].trace[i - 1].cands) = 2
              /\ procs[p].trace[i].cands[1].ip = 1

\* Both invocations are successful set_default_address calls that returned.
BothWrote ==
    \A p \in Procs :
        procs[p].cmd = "set" /\ Finished(procs[p]) /\ procs[p].result.ok

\* x followed by what y has beyond the length of x.
Over(x, y) == x \o SubSeq(y, Len(x) + 1, Len(y))

\* t is a proper prefix of s.
ProperPrefix(t, s) == Len(t) < Len(s) /\ t = SubSeq(s, 1, Len(t))

C10_FinalContent ==
    BothWrote =>
        /\ file.exists
        /\ \E p, q \in Procs :
              /\ p # q
              /\ \/ file.data = procs[p].address[1]
                 \/ file.data = Over(procs[p].address[1], procs[q].address[1])
        /\ (\A p, q \in Procs :
                Len(procs[p].address[1]) = Len(procs[q].address[1])) =>
              \E p \in Procs : file.data = procs[p].address[1]

\* A get that runs beside one set and reads something else than the
\* address being set reads either between the writer's truncate and the
\* end of its write (and then the empty string), or after a write that
\* failed part-way (and then the bytes that went out).
C10_ReaderWindow ==
    \A p, q \in Procs :
        LET v == procs'[p].result.val
            a == procs[q].address[1]
        IN  (/\ p # q
             /\ procs[p].pc = "get" /\ procs'[p].pc = "main"
             /\ procs'[p].result.ok
             /\ procs[q].cmd = "set"
             /\ v # a) =>
                \/ procs[q].pc = "write" /\ v = <<>>
                \/ /\ Finished(procs[q]) /\ ~procs[q].result.ok
                   /\ ProperPrefix(v, a)

C10_WitnessReader ==
    \E p, q \in Procs :
        /\ procs[p].cmd = "get" /\ Finished(procs[p])
        /\ procs[p].result.ok /\ procs[p].result.val = <<>>
        /\ procs[q].cmd = "set" /\ procs[q].pc = "write"
        /\ procs[q].address[1] # <<>>

====
